---- MODULE Spec2Model ----
(***************************************************************************)
(* HR cost comparison (src/app.py): the session-state parameter store, the *)
(* template / reset / initialise operations on it, the cost engine         *)
(* calculate_costs and the percentage shares the report generators derive  *)
(* from its Result.                                                        *)
(*                                                                         *)
(* Amounts.  The engine computes with Python numbers: integers from the    *)
(* store, divided by 12 and by 100.  Every amount it produces is a         *)
(* multiple of 1/(12*100*100) euro, so an amount is modelled exactly as a  *)
(* pair <<e, f>> standing for e + f/Den euro, with 0 <= f < Den.  Binary   *)
(* floating-point rounding is not modelled: equalities below are the       *)
(* equalities of the exact values.                                         *)
(***************************************************************************)
EXTENDS Integers, Sequences, FiniteSets, TLC

VARIABLES
    session_state,  \* st.session_state
    results,        \* the Result last returned by calculate_costs
    params,         \* the session state that call read
    report,         \* outcome of the last report generator call on results
    edits           \* widget edits made so far in the session

vars == <<session_state, results, params, report, edits>>

----------------------------------------------------------------------------
(* Exact amounts *)

Den == 12 * 100 * 100

Norm(e, f) == <<e + (f \div Den), f % Den>>

\* A Python integer taken as an amount.
Num(n) == <<n, 0>>

Add(a, b) == Norm(a[1] + b[1], a[2] + b[2])

Neg(a) == Norm(-a[1], -a[2])

Sub(a, b) == Add(a, Neg(b))

\* a * n / d for integers n and d, d a divisor of Den (1, 12 or 100).
Scale(a, n, d) ==
    Norm((a[1] * n) \div d,
         ((a[1] * n) % d) * (Den \div d) + (a[2] * n) \div d)

Lt(a, b) == a[1] < b[1] \/ (a[1] = b[1] /\ a[2] < b[2])

Zero == Num(0)

IsZero(a) == a = Zero

IsNeg(a) == Lt(a, Zero)

RECURSIVE SumOver(_, _)
\* sum(costs.values()) over the item names in ks
SumOver(costs, ks) ==
    IF ks = {} THEN Zero
    ELSE LET k == CHOOSE x \in ks : TRUE
         IN Add(costs[k], SumOver(costs, ks \ {k}))

SumValues(costs) == SumOver(costs, DOMAIN costs)

----------------------------------------------------------------------------
(* The session state: a dictionary, modelled as a function on its keys *)

Has(s, key) == key \in DOMAIN s

\* st.session_state.get(key, default)
Get(s, key, default) == IF Has(s, key) THEN s[key] ELSE default

\* st.session_state[key] = value
Put(s, key, value) ==
    [k \in DOMAIN s \cup {key} |-> IF k = key THEN value ELSE s[k]]

\* for key, value in d.items(): st.session_state[key] = value
PutAll(s, d) ==
    [k \in DOMAIN s \cup DOMAIN d |-> IF k \in DOMAIN d THEN d[k] ELSE s[k]]

\* del st.session_state[key] for the keys ks
Without(s, ks) == [k \in DOMAIN s \ ks |-> s[k]]

EmptyState == [k \in {} |-> 0]

INDUSTRY_TEMPLATES ==
    [Tech |->
        [hire_salary |-> 85000, vacancy_months |-> 4, social_percent |-> 22,
         benefits_percent |-> 12, prod_loss_percent |-> 50,
         berater_percent |-> 30, interview_hours |-> 15,
         interview_rate |-> 80, training_cost |-> 2000],
     Healthcare |->
        [hire_salary |-> 65000, vacancy_months |-> 3, social_percent |-> 24,
         benefits_percent |-> 15, prod_loss_percent |-> 40,
         berater_percent |-> 20, interview_hours |-> 10,
         interview_rate |-> 70, training_cost |-> 1500],
     Retail |->
        [hire_salary |-> 35000, vacancy_months |-> 2, social_percent |-> 20,
         benefits_percent |-> 8, prod_loss_percent |-> 30,
         berater_percent |-> 15, interview_hours |-> 8,
         interview_rate |-> 50, training_cost |-> 500],
     Finance |->
        [hire_salary |-> 75000, vacancy_months |-> 5, social_percent |-> 23,
         benefits_percent |-> 18, prod_loss_percent |-> 45,
         berater_percent |-> 25, interview_hours |-> 12,
         interview_rate |-> 90, training_cost |-> 2500]]

TemplateNames == DOMAIN INDUSTRY_TEMPLATES

\* A template merged into the stored values instead of overwriting them.
load_template_additive(s, template_name) ==
    LET template == INDUSTRY_TEMPLATES[template_name]
    IN Put([k \in DOMAIN s \cup DOMAIN template |->
                IF k \in DOMAIN template
                THEN Get(s, k, 0) + template[k]
                ELSE s[k]],
           "industry", template_name)

\* A load whose templates carry the incumbent's salary as well.
load_template_with_current_salary(s, template_name) ==
    Put(Put(PutAll(s, INDUSTRY_TEMPLATES[template_name]),
            "current_salary",
            CASE template_name = "Tech" -> 75000
              [] template_name = "Healthcare" -> 58000
              [] template_name = "Retail" -> 32000
              [] OTHER -> 68000),
        "industry", template_name)

load_template(s, template_name) ==
    Put(PutAll(s, INDUSTRY_TEMPLATES[template_name]), "industry", template_name)

defaults ==
    [hire_salary |-> 60000, vacancy_months |-> 3, social_percent |-> 22,
     benefits_percent |-> 8, prod_loss_percent |-> 40, industry |-> "General",
     anzeigen_qty |-> 2, anzeigen_price |-> 800, berater_percent |-> 25,
     interview_hours |-> 12, interview_rate |-> 70, assessment_qty |-> 1,
     assessment_price |-> 1500, reise_qty |-> 2, reise_price |-> 300,
     background_qty |-> 1, background_price |-> 200,
     produkt_price |-> 6000, ueberstunden_qty |-> 30,
     ueberstunden_price |-> 50, extern_qty |-> 20, extern_price |-> 400,
     gehalt_price |-> 6000,
     hr_hours |-> 10, hr_rate |-> 50, kollegen_hours |-> 15,
     kollegen_rate |-> 60, training_cost |-> 1000, it_cost |-> 1200,
     mentor_hours |-> 6, mentor_rate |-> 60,
     fehler_cost |-> 1400, knowhow_cost |-> 2000, kunden_cost |-> 2500,
     team_cost |-> 2000,
     current_salary |-> 60000, increase_percent |-> 8,
     social_increase_percent |-> 22, benefits_increase_percent |-> 8]

\* A reset that fills in absent keys and keeps the stored values.
reset_to_defaults_merge(s) == PutAll(defaults, s)

\* A reset whose dictionary lacks one of the parameters without a widget.
reset_to_defaults_without_assessment_qty(s) ==
    PutAll(s, [k \in DOMAIN defaults \ {"assessment_qty"} |-> defaults[k]])

reset_to_defaults(s) == PutAll(s, defaults)

\* An initialization without the 'initialized' test.
initialize_session_state_unguarded(s) ==
    Put(reset_to_defaults(s), "initialized", TRUE)

initialize_session_state(s) ==
    IF ~Has(s, "initialized")
    THEN Put(reset_to_defaults(s), "initialized", TRUE)
    ELSE s

----------------------------------------------------------------------------
(* calculate_costs *)

hire_salary(s) == Get(s, "hire_salary", 60000)

vacancy_months(s) == Get(s, "vacancy_months", 3)

social_percent(s) == Get(s, "social_percent", 22)

benefits_percent(s) == Get(s, "benefits_percent", 8)

prod_loss_percent(s) == Get(s, "prod_loss_percent", 40)

\* The recruiting items with the consultant fee not divided by 100.
recruiting_costs_berater_undivided(s) ==
    ("Stellenanzeigen" :>
        Num(Get(s, "anzeigen_qty", 2) * Get(s, "anzeigen_price", 800))) @@
    ("Personalberater" :>
        Num(hire_salary(s) * Get(s, "berater_percent", 25))) @@
    ("Interviews" :>
        Num(Get(s, "interview_hours", 12) * Get(s, "interview_rate", 70))) @@
    ("Assessment Center" :>
        Num(Get(s, "assessment_qty", 1) * Get(s, "assessment_price", 1500))) @@
    ("Reisekosten" :>
        Num(Get(s, "reise_qty", 2) * Get(s, "reise_price", 300))) @@
    ("Background Checks" :>
        Num(Get(s, "background_qty", 1) * Get(s, "background_price", 200)))

recruiting_costs(s) ==
    ("Stellenanzeigen" :>
        Num(Get(s, "anzeigen_qty", 2) * Get(s, "anzeigen_price", 800))) @@
    ("Personalberater" :>
        Scale(Num(hire_salary(s)), Get(s, "berater_percent", 25), 100)) @@
    ("Interviews" :>
        Num(Get(s, "interview_hours", 12) * Get(s, "interview_rate", 70))) @@
    ("Assessment Center" :>
        Num(Get(s, "assessment_qty", 1) * Get(s, "assessment_price", 1500))) @@
    ("Reisekosten" :>
        Num(Get(s, "reise_qty", 2) * Get(s, "reise_price", 300))) @@
    ("Background Checks" :>
        Num(Get(s, "background_qty", 1) * Get(s, "background_price", 200)))

recruiting_sum(s) == SumValues(recruiting_costs(s))

\* A mis-signed savings item: added as a cost instead of subtracted.
gehaltsersparnis_unsigned(s) ==
    Num(vacancy_months(s) * Get(s, "gehalt_price", 6000))

\* "Gehaltsersparnis": -(vacancy_months * gehalt_price)
gehaltsersparnis(s) ==
    Neg(Num(vacancy_months(s) * Get(s, "gehalt_price", 6000)))

\* The vacancy items without the salary saved during the vacancy.
vacancy_costs_without_gehaltsersparnis(s) ==
    ("Entgangene Produktivitaet" :>
        Num(vacancy_months(s) * Get(s, "produkt_price", 6000))) @@
    ("Ueberstunden Team" :>
        Num(Get(s, "ueberstunden_qty", 30) * Get(s, "ueberstunden_price", 50))) @@
    ("Externe Unterstuetzung" :>
        Num(Get(s, "extern_qty", 20) * Get(s, "extern_price", 400)))

vacancy_costs(s) ==
    ("Entgangene Produktivitaet" :>
        Num(vacancy_months(s) * Get(s, "produkt_price", 6000))) @@
    ("Ueberstunden Team" :>
        Num(Get(s, "ueberstunden_qty", 30) * Get(s, "ueberstunden_price", 50))) @@
    ("Externe Unterstuetzung" :>
        Num(Get(s, "extern_qty", 20) * Get(s, "extern_price", 400))) @@
    ("Gehaltsersparnis" :> gehaltsersparnis(s))

\* A sum that leaves out the items below zero.
vacancy_sum_of_positive_items(s) ==
    SumOver(vacancy_costs(s),
            {k \in DOMAIN vacancy_costs(s) : ~IsNeg(vacancy_costs(s)[k])})

vacancy_sum(s) == SumValues(vacancy_costs(s))

onboarding_costs(s) ==
    ("HR-Aufwand" :>
        Num(Get(s, "hr_hours", 10) * Get(s, "hr_rate", 50))) @@
    ("Einarbeitung Kollegen" :>
        Num(Get(s, "kollegen_hours", 15) * Get(s, "kollegen_rate", 60))) @@
    ("Schulungen/Training" :> Num(Get(s, "training_cost", 1000))) @@
    ("IT-Setup & Equipment" :> Num(Get(s, "it_cost", 1200))) @@
    ("Mentor/Buddy-System" :>
        Num(Get(s, "mentor_hours", 6) * Get(s, "mentor_rate", 60)))

onboarding_sum(s) == SumValues(onboarding_costs(s))

\* (hire_salary / 12) * (1 + social_percent / 100) * (prod_loss_percent / 100)
\* The monthly loss with the benefits rate in the overhead factor.
prod_loss_monthly_with_benefits(s) ==
    Scale(Scale(Scale(Num(hire_salary(s)), 1, 12),
                100 + social_percent(s) + benefits_percent(s), 100),
          prod_loss_percent(s), 100)

prod_loss_monthly(s) ==
    Scale(Scale(Scale(Num(hire_salary(s)), 1, 12),
                100 + social_percent(s), 100),
          prod_loss_percent(s), 100)

productivity_sum(s) == Scale(prod_loss_monthly(s), vacancy_months(s), 1)

other_costs(s) ==
    ("Fehlerrate" :> Num(Get(s, "fehler_cost", 1400))) @@
    ("Know-how-Verlust" :> Num(Get(s, "knowhow_cost", 2000))) @@
    ("Kundenbindung/Umsatz" :> Num(Get(s, "kunden_cost", 2500))) @@
    ("Team-Moral" :> Num(Get(s, "team_cost", 2000)))

other_sum(s) == SumValues(other_costs(s))

social_hire(s) == Scale(Num(hire_salary(s)), social_percent(s), 100)

benefits_hire(s) == Scale(Num(hire_salary(s)), benefits_percent(s), 100)

fixed_sum(s) == Add(Add(Num(hire_salary(s)), social_hire(s)), benefits_hire(s))

total_hire(s) ==
    Add(Add(Add(Add(Add(recruiting_sum(s), vacancy_sum(s)), onboarding_sum(s)),
                productivity_sum(s)),
            other_sum(s)),
        fixed_sum(s))

\* The fallback of another revision: 55000 where reset_to_defaults has 60000.
current_salary_fallback_55000(s) == Get(s, "current_salary", 55000)

current_salary(s) == Get(s, "current_salary", 60000)

increase_percent(s) == Get(s, "increase_percent", 8)

social_increase_percent(s) == Get(s, "social_increase_percent", 22)

benefits_increase_percent(s) == Get(s, "benefits_increase_percent", 8)

\* The raise taken on the new hire's salary instead of the incumbent's.
increase_amount_of_hire(s) ==
    Scale(Num(hire_salary(s)), increase_percent(s), 100)

increase_amount(s) == Scale(Num(current_salary(s)), increase_percent(s), 100)

\* Social contributions charged on the whole salary, not on the raise.
social_increase_on_salary(s) ==
    Scale(Num(current_salary(s)), social_increase_percent(s), 100)

social_increase(s) == Scale(increase_amount(s), social_increase_percent(s), 100)

benefits_increase(s) ==
    Scale(increase_amount(s), benefits_increase_percent(s), 100)

total_salary_increase(s) ==
    Add(Add(increase_amount(s), social_increase(s)), benefits_increase(s))

\* The keys calculate_costs reads from the session state.
EngineKeys ==
    {"hire_salary", "vacancy_months", "social_percent", "benefits_percent",
     "prod_loss_percent",
     "anzeigen_qty", "anzeigen_price", "berater_percent", "interview_hours",
     "interview_rate", "assessment_qty", "assessment_price", "reise_qty",
     "reise_price", "background_qty", "background_price",
     "produkt_price", "ueberstunden_qty", "ueberstunden_price", "extern_qty",
     "extern_price", "gehalt_price",
     "hr_hours", "hr_rate", "kollegen_hours", "kollegen_rate",
     "training_cost", "it_cost", "mentor_hours", "mentor_rate",
     "fehler_cost", "knowhow_cost", "kunden_cost", "team_cost",
     "current_salary", "increase_percent", "social_increase_percent",
     "benefits_increase_percent"}

calculate_costs(s) ==
    [recruiting |-> [costs |-> recruiting_costs(s), sum |-> recruiting_sum(s)],
     vacancy |-> [costs |-> vacancy_costs(s), sum |-> vacancy_sum(s)],
     onboarding |-> [costs |-> onboarding_costs(s), sum |-> onboarding_sum(s)],
     productivity |-> [sum |-> productivity_sum(s)],
     other |-> [costs |-> other_costs(s), sum |-> other_sum(s)],
     fixed |-> [sum |-> fixed_sum(s)],
     total_hire |-> total_hire(s),
     total_salary_increase |-> total_salary_increase(s),
     salary_breakdown |->
        [increase |-> increase_amount(s),
         social |-> social_increase(s),
         benefits |-> benefits_increase(s)]]

\* The divisors with the vacancy duration among them.
divisors_with_vacancy_months(s) == {12, 100, vacancy_months(s)}

\* The divisors of every division calculate_costs performs: hire_salary / 12
\* and the percentages / 100. They are literals, no stored value is one.
divisors(s) == {12, 100}

\* What a call of calculate_costs() yields: the Result, or the exception
\* Python raises on a zero divisor. The function has no raise statement and
\* reads the store only through .get(key, default).
calculate_costs_call(s) ==
    IF 0 \in divisors(s) THEN [raised |-> "ZeroDivisionError"]
    ELSE calculate_costs(s)

\* A call that stores the fallback of every absent parameter.
session_state_after_setdefault(s) == PutAll(defaults, s)

\* The session state a call of calculate_costs() leaves behind: the function
\* has no assignment to st.session_state, it only reads.
session_state_after_calculate_costs(s) == s

\* No Result yet: the script has not reached line 730.
NoResults == <<>>

HasResults == DOMAIN results # {}

NoReport == <<>>

HasReport == DOMAIN report # {}

----------------------------------------------------------------------------
(* Report generators: recommendation and percentage shares of total_hire *)

Categories ==
    {"recruiting", "vacancy", "onboarding", "productivity", "other", "fixed"}

\* Python's a / b on numbers: the quotient as an exact fraction, or the
\* exception a zero divisor raises.
Div(a, b) ==
    IF IsZero(b) THEN [raised |-> "ZeroDivisionError"]
    ELSE [num |-> a, den |-> b]

Raises(q) == "raised" \in DOMAIN q

\* results[c]['sum'] / results['total_hire'] * 100
percent_share(res, c) == Div(Scale(res[c].sum, 100, 1), res.total_hire)

\* amount / results['total_hire']
fraction_share(res, c) == Div(res[c].sum, res.total_hire)

\* A comparison that also recommends the raise when the totals are equal.
recommendation_at_least(res) ==
    IF ~Lt(res.total_hire, res.total_salary_increase)
    THEN "Gehaltserhoehung"
    ELSE "Neubesetzung"

\* The banner of the page, lines 745-750.
banner_recommendation(res) ==
    IF Lt(res.total_salary_increase, res.total_hire)
    THEN "Gehaltserhoehung"
    ELSE "Neubesetzung"

\* The last row of the results table, line 1120.
table_recommendation(res) ==
    IF Lt(res.total_salary_increase, res.total_hire)
    THEN "Gehaltserhoehung"
    ELSE "Neubesetzung"

\* The executive summary of the PDF, PowerPoint and Word reports.
recommendation(res) ==
    IF Lt(res.total_salary_increase, res.total_hire)
    THEN "Gehaltserhoehung"
    ELSE "Neubesetzung"

\* What a generator returns, or the exception that leaves it.
Outcome(kind, rec, shares) ==
    IF \E c \in Categories : Raises(shares[c])
    THEN [kind |-> kind, raised |-> "ZeroDivisionError"]
    ELSE [kind |-> kind, raised |-> "", recommendation |-> rec,
          shares |-> shares]

create_pdf_report(res) ==
    Outcome("pdf", recommendation(res),
            [c \in Categories |-> percent_share(res, c)])

create_excel_report(res) ==
    Outcome("excel", "",
            [c \in Categories |-> fraction_share(res, c)])

create_powerpoint_report(res) ==
    Outcome("pptx", recommendation(res),
            [c \in Categories |-> percent_share(res, c)])

create_word_report(res) ==
    Outcome("word", recommendation(res),
            [c \in Categories |-> percent_share(res, c)])

ReportKinds == {"pdf", "excel", "pptx", "word"}

create_report(kind, res) ==
    CASE kind = "pdf" -> create_pdf_report(res)
      [] kind = "excel" -> create_excel_report(res)
      [] kind = "pptx" -> create_powerpoint_report(res)
      [] kind = "word" -> create_word_report(res)

----------------------------------------------------------------------------
(* The application: one action per interaction cycle of main() *)

MaxEdits == 2

\* Values a user can enter, inside the ranges the input widgets allow.
WidgetValues ==
    {<<"hire_salary", 20000>>, <<"current_salary", 0>>,
     <<"vacancy_months", 1>>, <<"gehalt_price", 48140>>,
     <<"increase_percent", 0>>, <<"prod_loss_percent", 100>>}

Init ==
    /\ session_state = EmptyState
    /\ results = NoResults
    /\ params = EmptyState
    /\ report = NoReport
    /\ edits = 0

\* A run that keeps the Result of the previous run when there is one.
RunMain_cached(s) ==
    /\ session_state' = initialize_session_state(s)
    /\ results' = IF HasResults THEN results
                  ELSE calculate_costs_call(initialize_session_state(s))
    /\ params' = initialize_session_state(s)

\* main() up to line 730 on the session state s left by the event:
\* initialize_session_state(), then results = calculate_costs().
RunMain(s) ==
    /\ session_state' =
           session_state_after_calculate_costs(initialize_session_state(s))
    /\ results' = calculate_costs_call(initialize_session_state(s))
    /\ params' = initialize_session_state(s)

\* A script run without a state-changing event (the first one opens the page).
Rerun ==
    /\ RunMain(session_state)
    /\ report' = NoReport
    /\ UNCHANGED edits

\* min(results['total_hire'], results['total_salary_increase']), the divisor
\* of the savings percentage at line 741.
savings_divisor(res) ==
    IF Lt(res.total_salary_increase, res.total_hire)
    THEN res.total_salary_increase
    ELSE res.total_hire

\* The run gets past lines 730-750 to the AI sections: calculate_costs
\* returned and the division at line 741 did not raise.
MainReachesAdvisory(res) ==
    /\ "raised" \notin DOMAIN res
    /\ ~IsZero(savings_divisor(res))

\* The run gets on to the tabs at the bottom: line 946 divides by
\* st.session_state.vacancy_months.
MainReachesTabs(s, res) ==
    /\ MainReachesAdvisory(res)
    /\ s.vacancy_months # 0

\* The keys of the sidebar widgets (lines 702-721), drawn before line 730.
SidebarKeys ==
    {"hire_salary", "vacancy_months", "social_percent", "benefits_percent",
     "prod_loss_percent"}

\* The widget of the key is on the page the last run drew: the detail
\* widgets (lines 794-847) come after the division at line 741.
WidgetDrawn(key) ==
    \/ key \in SidebarKeys
    \/ HasResults /\ MainReachesAdvisory(results)

\* A keyed widget writes its new value, then the script reruns.
EditWidget(key, value) ==
    /\ Has(session_state, "initialized")
    /\ WidgetDrawn(key)
    /\ edits < MaxEdits
    /\ RunMain(Put(session_state, key, value))
    /\ report' = NoReport
    /\ edits' = edits + 1

\* "Vorlage laden": load_template, st.rerun().
ClickLoadTemplate(template) ==
    /\ Has(session_state, "initialized")
    /\ RunMain(load_template(initialize_session_state(session_state), template))
    /\ report' = NoReport
    /\ UNCHANGED edits

\* "Reset": reset_to_defaults, st.rerun().
ClickReset ==
    /\ Has(session_state, "initialized")
    /\ RunMain(reset_to_defaults(initialize_session_state(session_state)))
    /\ report' = NoReport
    /\ UNCHANGED edits

\* An export button (lines 985-1081, in the tabs at the bottom of the page):
\* the run computes results, then calls the generator.
ClickExport(kind) ==
    /\ Has(session_state, "initialized")
    /\ HasResults /\ MainReachesTabs(session_state, results)
    /\ RunMain(session_state)
    /\ report' = create_report(kind, results')
    /\ UNCHANGED edits

\* The keys of the AI history.
AdvisoryKeys ==
    {"ai_insights", "insights_timestamp", "ai_scenarios", "scenarios_timestamp"}

\* What get_ai_insights / get_ai_scenarios return: None when the service
\* fails or no client exists, else the text of the reply.
AdvisoryReplies == {"None", "reply"}

\* if insights: (Python truth of the returned value)
Truthy(reply) == reply # "None"

\* datetime.now(); the instant itself is not modelled.
Now == "datetime.now()"

\* Lines 771-775: a reply is stored with its timestamp.
save_insights(s, insights) ==
    IF Truthy(insights)
    THEN Put(Put(s, "ai_insights", insights), "insights_timestamp", Now)
    ELSE s

\* Scenarios stored without the time they were made.
save_scenarios_without_timestamp(s, scenarios) ==
    IF Truthy(scenarios) THEN Put(s, "ai_scenarios", scenarios) ELSE s

\* Lines 901-906.
save_scenarios(s, scenarios) ==
    IF Truthy(scenarios)
    THEN Put(Put(s, "ai_scenarios", scenarios), "scenarios_timestamp", Now)
    ELSE s

\* A clearing that empties the whole session state.
clear_ai_history_all(s) == EmptyState

\* Lines 1183-1188.
clear_ai_history(s) ==
    LET s1 == IF Has(s, "ai_insights")
              THEN Without(s, {"ai_insights", "insights_timestamp"})
              ELSE s
    IN IF Has(s1, "ai_scenarios")
       THEN Without(s1, {"ai_scenarios", "scenarios_timestamp"})
       ELSE s1

\* "AI-Analyse generieren": the run computes results, asks the service and
\* stores a reply.
ClickGenerateInsights(insights) ==
    /\ Has(session_state, "initialized")
    /\ LET s == initialize_session_state(session_state)
           res == calculate_costs_call(s)
       IN /\ results' = res
          /\ params' = s
          /\ session_state' =
                 IF MainReachesAdvisory(res)
                 THEN save_insights(session_state_after_calculate_costs(s),
                                    insights)
                 ELSE session_state_after_calculate_costs(s)
    /\ report' = NoReport
    /\ UNCHANGED edits

\* "AI-Szenarien generieren".
ClickGenerateScenarios(scenarios) ==
    /\ Has(session_state, "initialized")
    /\ LET s == initialize_session_state(session_state)
           res == calculate_costs_call(s)
       IN /\ results' = res
          /\ params' = s
          /\ session_state' =
                 IF MainReachesAdvisory(res)
                 THEN save_scenarios(session_state_after_calculate_costs(s),
                                     scenarios)
                 ELSE session_state_after_calculate_costs(s)
    /\ report' = NoReport
    /\ UNCHANGED edits

\* "AI-History loeschen": the run reaches the button, deletes the history,
\* st.rerun().
ClickClearHistory ==
    /\ Has(session_state, "initialized")
    /\ LET s == initialize_session_state(session_state)
           res == calculate_costs_call(s)
       IN IF MainReachesTabs(s, res)
          THEN RunMain(clear_ai_history(session_state_after_calculate_costs(s)))
          ELSE RunMain(session_state)
    /\ report' = NoReport
    /\ UNCHANGED edits

Next ==
    \/ Rerun
    \/ \E w \in WidgetValues : EditWidget(w[1], w[2])
    \/ \E t \in TemplateNames : ClickLoadTemplate(t)
    \/ ClickReset
    \/ \E k \in ReportKinds : ClickExport(k)
    \/ \E r \in AdvisoryReplies : ClickGenerateInsights(r)
    \/ \E r \in AdvisoryReplies : ClickGenerateScenarios(r)
    \/ ClickClearHistory

Spec == Init /\ [][Next]_vars

----------------------------------------------------------------------------
(* The functions on their own, called on arbitrary Parameter Sets *)

AllZero == [k \in DOMAIN defaults |-> IF k = "industry" THEN "General" ELSE 0]

HireValues == {0, 55000, 60000}

CurrentValues == {0, 55000, 60000}

VacancyValues == {-1, 0, 1, 3}

GehaltValues == {0, 6000, 7000}

AllOne == [k \in DOMAIN defaults |-> IF k = "industry" THEN "General" ELSE 1]

\* del st.session_state[k] for every k in ks
\* Stores in which one parameter, or every parameter, is absent.
PartialSets ==
    {Without(AllOne, {k}) : k \in DOMAIN defaults} \cup {EmptyState}

\* Stores with values outside the ranges the input widgets allow.
OutOfRangeSets ==
    {PutAll(defaults, [vacancy_months |-> 0]),
     PutAll(defaults, [hire_salary |-> -1000, anzeigen_qty |-> -2,
                       hr_hours |-> -10, fehler_cost |-> -1400]),
     PutAll(defaults, [social_percent |-> 150, benefits_percent |-> 120,
                       prod_loss_percent |-> 250, berater_percent |-> 101,
                       increase_percent |-> 200,
                       social_increase_percent |-> 300])}

\* A store whose two totals are both 126420.
EqualTotals ==
    PutAll(defaults, [current_salary |-> 1264200, increase_percent |-> 10,
                      social_increase_percent |-> 0,
                      benefits_increase_percent |-> 0])

ParameterSets ==
    {PutAll(defaults, [hire_salary |-> h, current_salary |-> c,
                       vacancy_months |-> v, gehalt_price |-> g]) :
        h \in HireValues, c \in CurrentValues,
        v \in VacancyValues, g \in GehaltValues}
    \cup {AllZero, PutAll(defaults, [gehalt_price |-> 48140]), EqualTotals}

EngineInit ==
    /\ session_state \in ParameterSets
    /\ results = NoResults
    /\ params = EmptyState
    /\ report = NoReport
    /\ edits = 0

CallCalculateCosts ==
    /\ results' = calculate_costs_call(session_state)
    /\ params' = session_state
    /\ session_state' = session_state_after_calculate_costs(session_state)
    /\ report' = NoReport
    /\ UNCHANGED edits

CallLoadTemplate(template) ==
    /\ session_state' = load_template(session_state, template)
    /\ UNCHANGED <<results, params, report, edits>>

CallResetToDefaults ==
    /\ session_state' = reset_to_defaults(session_state)
    /\ UNCHANGED <<results, params, report, edits>>

CallInitializeSessionState ==
    /\ session_state' = initialize_session_state(session_state)
    /\ UNCHANGED <<results, params, report, edits>>

CallCreateReport(kind) ==
    /\ HasResults
    /\ report' = create_report(kind, results)
    /\ UNCHANGED <<session_state, results, params, edits>>

EngineNext ==
    \/ CallCalculateCosts
    \/ \E t \in TemplateNames : CallLoadTemplate(t)
    \/ CallResetToDefaults
    \/ CallInitializeSessionState
    \/ \E k \in ReportKinds : CallCreateReport(k)

EngineSpec == EngineInit /\ [][EngineNext]_vars

\* The same calls on stores with absent parameters and out-of-range values.
UncheckedInit ==
    /\ session_state \in PartialSets \cup OutOfRangeSets \cup {AllZero}
    /\ results = NoResults
    /\ params = EmptyState
    /\ report = NoReport
    /\ edits = 0

UncheckedSpec == UncheckedInit /\ [][EngineNext]_vars

----------------------------------------------------------------------------
(* Properties *)

\* The five category sums of a Result, added up.
FiveSums(res) ==
    Add(Add(Add(Add(res.recruiting.sum, res.vacancy.sum), res.onboarding.sum),
            res.productivity.sum),
        res.other.sum)

\* The incremental salary term the specification asks for:
\* (hire_salary - current_salary) * (1 + social_percent/100 + benefits_percent/100)
SalaryDifference(s) ==
    Scale(Num(hire_salary(s) - current_salary(s)),
          100 + social_percent(s) + benefits_percent(s), 100)

\* C1: total_hire is the five category sums plus the incremental salary
\* difference, and nothing else (not the new hire's full salary and overhead).
C1_TotalHireIsIncremental ==
    HasResults =>
        results.total_hire = Add(FiveSums(results), SalaryDifference(params))

\* C2: the salary term that enters total_hire is computed from
\* hire_salary - current_salary scaled by the overhead factor; for 60000 /
\* 55000 / 22 / 8 it is 6500.
C2_SalaryTermFromDifference ==
    HasResults =>
        /\ results.fixed.sum = SalaryDifference(params)
        /\ (/\ hire_salary(params) = 60000
            /\ current_salary(params) = 55000
            /\ social_percent(params) = 22
            /\ benefits_percent(params) = 8) => results.fixed.sum = Num(6500)

\* C3: with hire_salary = current_salary the salary term is zero and
\* total_hire is exactly the sum of the five category sums.
C3_EqualSalariesNoSalaryTerm ==
    (HasResults /\ hire_salary(params) = current_salary(params)) =>
        /\ IsZero(results.fixed.sum)
        /\ results.total_hire = FiveSums(results)

\* Salaries a second Parameter Set may carry in place of hire_salary.
OtherHireValues == HireValues \cup {85000, 200000}

\* C4: two Parameter Sets that differ only in hire_salary have the same
\* total_salary_increase and the same salary_breakdown.
C4_RaiseIndependentOfHireSalary ==
    HasResults =>
        \A h \in OtherHireValues :
            LET other == calculate_costs(Put(params, "hire_salary", h))
            IN /\ other.total_salary_increase = results.total_salary_increase
               /\ other.salary_breakdown = results.salary_breakdown

C4_Witness ==
    /\ HasResults
    /\ hire_salary(params) = 55000
    /\ current_salary(params) = 60000
    /\ results.total_salary_increase = Num(6240)

\* C5: increase = current_salary * increase_percent / 100, social and
\* benefits are the two percentages of increase, and total_salary_increase
\* is the sum of the three; 55000 at 8 / 22 / 8 percent gives
\* 4400 + 968 + 352 = 5720.
C5_RaiseBreakdown ==
    HasResults =>
        LET b == results.salary_breakdown
        IN /\ Scale(b.increase, 100, 1) =
                Num(current_salary(params) * increase_percent(params))
           /\ Scale(b.social, 100, 1) =
                Scale(b.increase, social_increase_percent(params), 1)
           /\ Scale(b.benefits, 100, 1) =
                Scale(b.increase, benefits_increase_percent(params), 1)
           /\ results.total_salary_increase =
                Add(Add(b.increase, b.social), b.benefits)
           /\ (/\ current_salary(params) = 55000
               /\ increase_percent(params) = 8
               /\ social_increase_percent(params) = 22
               /\ benefits_increase_percent(params) = 8) =>
                    /\ b.increase = Num(4400)
                    /\ b.social = Num(968)
                    /\ b.benefits = Num(352)
                    /\ results.total_salary_increase = Num(5720)

C5_Witness ==
    /\ HasResults
    /\ current_salary(params) = 55000
    /\ increase_percent(params) = 8
    /\ social_increase_percent(params) = 22
    /\ benefits_increase_percent(params) = 8
    /\ results.total_salary_increase = Num(5720)

\* C6: with hire_salary < current_salary the salary term of the Result is
\* negative and total_hire lies below the five category sums by that amount.
C6_CheaperHireLowersTotal ==
    (HasResults /\ hire_salary(params) < current_salary(params)) =>
        /\ IsNeg(results.fixed.sum)
        /\ results.total_hire = Add(FiveSums(results), results.fixed.sum)
        /\ Lt(results.total_hire, FiveSums(results))

\* C7: when total_hire is zero, a report generator reports every category's
\* share of total_hire as 0 and does not raise.
C7_ZeroTotalSharesAreZero ==
    (HasReport /\ IsZero(results.total_hire)) =>
        /\ report.raised = ""
        /\ \A c \in Categories : report.shares[c] = Zero

\* Prices a second Parameter Set may carry in place of gehalt_price.
OtherGehaltValues == GehaltValues \cup {48140}

\* vacancy.sum of each Parameter Set that differs from s only in gehalt_price.
VacancySumWith(s) ==
    [g \in OtherGehaltValues |->
        calculate_costs(Put(s, "gehalt_price", g)).vacancy.sum]

\* C8 as stated: a larger gehalt_price gives a strictly smaller vacancy.sum
\* for every admissible vacancy_months the Engine receives, 0 included.
C8_GehaltStrictlyLowersVacancy ==
    (HasResults /\ vacancy_months(params) >= 0) =>
        LET sum == VacancySumWith(params)
        IN \A g1, g2 \in OtherGehaltValues :
                g1 < g2 => Lt(sum[g2], sum[g1])

\* C8 amended: a larger gehalt_price gives a strictly smaller vacancy.sum
\* when vacancy_months > 0, and the same vacancy.sum when vacancy_months = 0.
C8_GehaltLowersVacancyWhenVacant ==
    HasResults =>
        LET sum == VacancySumWith(params)
        IN \A g1, g2 \in OtherGehaltValues :
                g1 < g2 =>
                    /\ vacancy_months(params) > 0 => Lt(sum[g2], sum[g1])
                    /\ vacancy_months(params) = 0 => sum[g2] = sum[g1]

C8_Witness ==
    /\ HasResults
    /\ vacancy_months(params) = 3
    /\ Get(params, "gehalt_price", 6000) = 7000
    /\ results.vacancy.sum = VacancySumWith(params)[7000]
    /\ Lt(results.vacancy.sum, VacancySumWith(params)[6000])

\* C9: load_template is idempotent: a second load_template(T) right after
\* the first leaves the store as the first left it, and calculate_costs
\* returns the same Result after either.
C9_LoadTemplateIdempotent ==
    \A t \in TemplateNames :
        LET once == load_template(session_state, t)
            twice == load_template(once, t)
        IN /\ twice = once
           /\ calculate_costs(twice) = calculate_costs(once)

C9_Witness ==
    /\ Has(session_state, "industry")
    /\ session_state["industry"] = "Tech"
    /\ session_state = load_template(session_state, "Tech")
    /\ HasResults
    /\ params = session_state

\* The template table of the specification (section 6), current_salary
\* included.
TemplateTable ==
    [Tech |->
        [hire_salary |-> 85000, current_salary |-> 75000,
         vacancy_months |-> 4, social_percent |-> 22, benefits_percent |-> 12,
         prod_loss_percent |-> 50, berater_percent |-> 30,
         interview_hours |-> 15, interview_rate |-> 80,
         training_cost |-> 2000],
     Healthcare |->
        [hire_salary |-> 65000, current_salary |-> 58000,
         vacancy_months |-> 3, social_percent |-> 24, benefits_percent |-> 15,
         prod_loss_percent |-> 40, berater_percent |-> 20,
         interview_hours |-> 10, interview_rate |-> 70,
         training_cost |-> 1500],
     Retail |->
        [hire_salary |-> 35000, current_salary |-> 32000,
         vacancy_months |-> 2, social_percent |-> 20, benefits_percent |-> 8,
         prod_loss_percent |-> 30, berater_percent |-> 15,
         interview_hours |-> 8, interview_rate |-> 50,
         training_cost |-> 500],
     Finance |->
        [hire_salary |-> 75000, current_salary |-> 68000,
         vacancy_months |-> 5, social_percent |-> 23, benefits_percent |-> 18,
         prod_loss_percent |-> 45, berater_percent |-> 25,
         interview_hours |-> 12, interview_rate |-> 90,
         training_cost |-> 2500]]

\* C10: after load_template(T) the store holds every value the template
\* table lists for T, current_salary among them, and industry = T.
C10_TemplateTableLoaded ==
    [][\A t \in TemplateNames :
          ClickLoadTemplate(t) =>
              /\ \A k \in DOMAIN TemplateTable[t] :
                    session_state'[k] = TemplateTable[t][k]
              /\ session_state'["industry"] = t]_vars

\* The store s with every absent parameter set to its default.
WithDefaults(s) == PutAll(defaults, s)

\* C11: with any parameters absent from the store, calculate_costs returns
\* the Result it returns for the store in which each absent parameter holds
\* its default (hire_salary 60000, vacancy_months 3, ..., increase_percent 8).
C11_AbsentParametersDefaulted ==
    HasResults =>
        /\ results = calculate_costs(WithDefaults(params))
        /\ params = EmptyState => results = calculate_costs(defaults)

C11_Witness ==
    /\ HasResults
    /\ ~Has(params, "current_salary")
    /\ Has(params, "increase_percent")
    /\ results.salary_breakdown.increase = Num(600)

\* The groups of the Result in the data model, each with its fields.
ResultShape ==
    [recruiting |-> {"costs", "sum"}, vacancy |-> {"costs", "sum"},
     onboarding |-> {"costs", "sum"}, other |-> {"costs", "sum"},
     productivity |-> {"sum"}, salary_difference |-> {"sum"},
     salary_breakdown |-> {"increase", "social", "benefits"}]

ResultScalars == {"total_hire", "total_salary_increase"}

\* C12: every Result has exactly the groups of the data model (recruiting,
\* vacancy, onboarding, other with costs and sum; productivity and
\* salary_difference with sum; salary_breakdown with increase, social and
\* benefits) and the scalars total_hire and total_salary_increase.
C12_ResultHasDataModelShape ==
    HasResults =>
        /\ DOMAIN results = DOMAIN ResultShape \cup ResultScalars
        /\ \A g \in DOMAIN ResultShape \cap DOMAIN results :
               DOMAIN results[g] = ResultShape[g]

C15_ResultFromCurrentStore ==
    HasResults =>
        /\ results = calculate_costs(session_state)
        /\ Without(params, AdvisoryKeys) = Without(session_state, AdvisoryKeys)

C15_Witness ==
    /\ edits = MaxEdits
    /\ session_state.industry = "Retail"
    /\ session_state.hire_salary = 35000
    /\ session_state.prod_loss_percent = 100
    /\ results = calculate_costs(session_state)

\* The defaults of the engine's parameters as the interface table lists them;
\* current_salary is listed as a range.
DefaultsTable ==
    [hire_salary |-> 60000, vacancy_months |-> 3, social_percent |-> 22,
     benefits_percent |-> 8, prod_loss_percent |-> 40,
     anzeigen_qty |-> 2, anzeigen_price |-> 800, berater_percent |-> 25,
     interview_hours |-> 12, interview_rate |-> 70,
     assessment_qty |-> 1, assessment_price |-> 1500,
     reise_qty |-> 2, reise_price |-> 300,
     background_qty |-> 1, background_price |-> 200,
     produkt_price |-> 6000, ueberstunden_qty |-> 30,
     ueberstunden_price |-> 50, extern_qty |-> 20, extern_price |-> 400,
     gehalt_price |-> 6000, hr_hours |-> 10, hr_rate |-> 50,
     kollegen_hours |-> 15, kollegen_rate |-> 60,
     training_cost |-> 1000, it_cost |-> 1200,
     mentor_hours |-> 6, mentor_rate |-> 60, fehler_cost |-> 1400,
     knowhow_cost |-> 2000, kunden_cost |-> 2500, team_cost |-> 2000,
     increase_percent |-> 8, social_increase_percent |-> 22,
     benefits_increase_percent |-> 8]

AtDefaults(s) ==
    /\ \A k \in DOMAIN DefaultsTable : Has(s, k) /\ s[k] = DefaultsTable[k]
    /\ Has(s, "current_salary")
    /\ s.current_salary >= 55000 /\ s.current_salary <= 60000
    /\ Has(s, "industry") /\ s.industry = "General"

\* C16: from any store state, reset_to_defaults leaves every parameter of the
\* engine at its default and industry at "General", and a second reset
\* changes nothing.
C16_ResetIdempotentOverwrite ==
    /\ AtDefaults(reset_to_defaults(session_state))
    /\ reset_to_defaults(reset_to_defaults(session_state)) =
           reset_to_defaults(session_state)

C16_Witness ==
    /\ edits > 0
    /\ AtDefaults(session_state)

\* C17: the first initialize_session_state call writes all defaults and the
\* initialized mark; every later call leaves the store unchanged, so the
\* value a user edit stored is still there after the run.
C17_DefaultsAppliedOnce ==
    [][/\ ~Has(session_state, "initialized") =>
            session_state' = Put(defaults, "initialized", TRUE)
       /\ Has(session_state, "initialized") =>
            initialize_session_state(session_state) = session_state
       /\ \A w \in WidgetValues :
            EditWidget(w[1], w[2]) => session_state'[w[1]] = w[2]
       /\ \A t \in TemplateNames :
            ClickLoadTemplate(t) =>
                session_state' = load_template(session_state, t)]_vars

C17_Witness ==
    /\ edits > 0
    /\ Has(session_state, "initialized")
    /\ session_state.hire_salary = 20000
    /\ session_state.industry = "Tech"
\* The AI history a session state holds.
History(s) == [k \in DOMAIN s \cap AdvisoryKeys |-> s[k]]

\* C18: the steps that change the AI history (generate insights, generate
\* scenarios, clear AI history) change only ai_insights, insights_timestamp,
\* ai_scenarios and scenarios_timestamp; every other key keeps its value, and
\* the Result of the run is the Result of the store without any AI history.
C18_AdvisoryWritesOnlyHistory ==
    [][History(session_state') # History(session_state) =>
          /\ DOMAIN session_state' \ AdvisoryKeys =
                 DOMAIN session_state \ AdvisoryKeys
          /\ \A k \in DOMAIN session_state \ AdvisoryKeys :
                 session_state'[k] = session_state[k]
          /\ DOMAIN History(session_state') \subseteq AdvisoryKeys
          /\ results' = calculate_costs(Without(session_state, AdvisoryKeys))]_vars

C18_Witness ==
    /\ edits > 0
    /\ Has(session_state, "ai_insights")
    /\ Has(session_state, "ai_scenarios")
    /\ session_state.industry = "Tech"
    /\ results = calculate_costs(Without(session_state, AdvisoryKeys))
\* The three positive vacancy items of a store, in euro.
OtherVacancyItems(s) ==
    s.vacancy_months * s.produkt_price
    + s.ueberstunden_qty * s.ueberstunden_price
    + s.extern_qty * s.extern_price

\* C19: vacancy.sum is vacancy_months * produkt_price + ueberstunden_qty *
\* ueberstunden_price + extern_qty * extern_price - vacancy_months *
\* gehalt_price, and it is below zero whenever vacancy_months * gehalt_price
\* exceeds the other three items.
C19_VacancySumFormula ==
    HasResults =>
        /\ results.vacancy.sum =
               Num(OtherVacancyItems(params)
                   - params.vacancy_months * params.gehalt_price)
        /\ params.vacancy_months * params.gehalt_price
               > OtherVacancyItems(params)
             => IsNeg(results.vacancy.sum)

C19_Witness ==
    /\ HasResults
    /\ params.vacancy_months = 3
    /\ params.gehalt_price = 48140
    /\ results.vacancy.sum = Neg(Num(116920))

OtherBenefitsValues == {0, 8, 25}

\* C20: productivity.sum is (hire_salary / 12) * (1 + social_percent / 100)
\* * (prod_loss_percent / 100) * vacancy_months, stated here as twelve times
\* the sum being hire_salary * vacancy_months scaled by the two rates; it is
\* the same for every benefits_percent and current_salary, and it is 7320
\* for 60000 / 22 / 40 / 3.
C20_ProductivitySumFormula ==
    HasResults =>
        /\ Scale(results.productivity.sum, 12, 1) =
               Scale(Scale(Num(params.hire_salary * params.vacancy_months),
                           100 + params.social_percent, 100),
                     params.prod_loss_percent, 100)
        /\ \A b \in OtherBenefitsValues : \A c \in CurrentValues :
               calculate_costs(PutAll(params,
                   [benefits_percent |-> b, current_salary |-> c])
               ).productivity.sum = results.productivity.sum
        /\ ( /\ params.hire_salary = 60000 /\ params.social_percent = 22
             /\ params.prod_loss_percent = 40 /\ params.vacancy_months = 3 )
             => results.productivity.sum = Num(7320)

C20_Witness ==
    /\ HasResults
    /\ params.hire_salary = 60000
    /\ params.social_percent = 22
    /\ params.prod_loss_percent = 40
    /\ params.vacancy_months = 3
    /\ params.benefits_percent = 8
    /\ results.productivity.sum = Num(7320)
\* C21: recruiting.sum is anzeigen_qty * anzeigen_price + hire_salary *
\* berater_percent / 100 + interview_hours * interview_rate + assessment_qty
\* * assessment_price + reise_qty * reise_price + background_qty *
\* background_price.
C21_RecruitingSumFormula ==
    HasResults =>
        results.recruiting.sum =
            Add(Num(params.anzeigen_qty * params.anzeigen_price
                    + params.interview_hours * params.interview_rate
                    + params.assessment_qty * params.assessment_price
                    + params.reise_qty * params.reise_price
                    + params.background_qty * params.background_price),
                Scale(Num(params.hire_salary * params.berater_percent), 1, 100))

C21_Witness ==
    /\ HasResults
    /\ params.hire_salary = 85000
    /\ params.berater_percent = 30
    /\ params.interview_hours = 15
    /\ results.recruiting.sum = Num(30600)

ItemizedCategories == {"recruiting", "vacancy", "onboarding", "other"}

\* The amounts of an itemized costs mapping added up limb by limb.
RECURSIVE LimbTotal(_, _, _)
LimbTotal(costs, ks, i) ==
    IF ks = {} THEN 0
    ELSE LET k == CHOOSE x \in ks : TRUE
         IN costs[k][i] + LimbTotal(costs, ks \ {k}, i)

ItemTotal(costs) ==
    Norm(LimbTotal(costs, DOMAIN costs, 1), LimbTotal(costs, DOMAIN costs, 2))

\* C22: in every Result the sum of each itemized category (recruiting,
\* vacancy, onboarding, other) is the total of the amounts in its costs
\* mapping, and these totals are what total_hire is built from.
C22_SumsAreItemTotals ==
    HasResults =>
        /\ \A c \in ItemizedCategories :
               results[c].sum = ItemTotal(results[c].costs)
        /\ Sub(Sub(results.total_hire, results.fixed.sum),
               results.productivity.sum)
             = Add(Add(Add(ItemTotal(results.recruiting.costs),
                           ItemTotal(results.vacancy.costs)),
                       ItemTotal(results.onboarding.costs)),
                   ItemTotal(results.other.costs))

C22_Witness ==
    /\ HasResults
    /\ params.gehalt_price = 48140
    /\ IsNeg(results.vacancy.costs["Gehaltsersparnis"])
    /\ results.vacancy.sum = ItemTotal(results.vacancy.costs)
    /\ IsNeg(results.vacancy.sum)
\* A step that loads a template other than the one the store is labelled with.
TemplateLoaded ==
    /\ Has(session_state, "industry")
    /\ Has(session_state', "industry")
    /\ session_state'.industry \in TemplateNames
    /\ session_state'.industry # session_state.industry

\* C23: loading a template changes only the keys of that template and the
\* industry label; every other entry (the remaining quantities and prices,
\* current_salary, the increase rates, the initialized flag, the AI history)
\* keeps its value, so total_salary_increase is the same before and after.
C23_LoadTemplateFrame ==
    [][TemplateLoaded =>
          LET template == INDUSTRY_TEMPLATES[session_state'.industry]
              changed == DOMAIN template \cup {"industry"}
          IN /\ DOMAIN session_state' = DOMAIN session_state \cup changed
             /\ \A k \in DOMAIN session_state \ changed :
                    session_state'[k] = session_state[k]
             /\ \A k \in DOMAIN template : session_state'[k] = template[k]
             /\ total_salary_increase(session_state') =
                    total_salary_increase(session_state)]_vars

C23_Witness ==
    /\ edits > 0
    /\ session_state.industry = "Finance"
    /\ session_state.hire_salary = 75000
    /\ session_state.current_salary = 0
    /\ Has(session_state, "ai_insights")
    /\ Has(session_state, "initialized")
\* C24: for every store the input widgets can produce (increase_percent 0
\* and current_salary 0 included), the divisor min(total_hire,
\* total_salary_increase) of the savings percentage is not zero.
C24_SavingsDivisorNotZero ==
    HasResults => ~IsZero(savings_divisor(results))
\* The outputs that state a recommendation in a report.
RecommendingKinds == {"pdf", "pptx", "word"}

\* C25: the page banner, the results table and the PDF, PowerPoint and Word
\* reports recommend the same option, decided by the two totals alone: the
\* raise exactly when total_hire > total_salary_increase, the new hire
\* otherwise, equal totals included.
C25_SameRecommendationEverywhere ==
    HasResults =>
        LET hire_dearer ==
                /\ results.total_hire # results.total_salary_increase
                /\ ~Lt(results.total_hire, results.total_salary_increase)
            expected == IF hire_dearer THEN "Gehaltserhoehung"
                        ELSE "Neubesetzung"
        IN /\ banner_recommendation(results) = expected
           /\ table_recommendation(results) = expected
           /\ ( /\ HasReport
                /\ report.kind \in RecommendingKinds
                /\ report.raised = "" )
                => report.recommendation = expected

C25_Witness ==
    /\ HasResults
    /\ results.total_hire = results.total_salary_increase
    /\ results.total_hire = Num(126420)
    /\ HasReport
    /\ report.kind = "word"
    /\ report.raised = ""
    /\ report.recommendation = "Neubesetzung"
    /\ banner_recommendation(results) = "Neubesetzung"
\* C26: ai_insights is in the session state exactly when insights_timestamp
\* is, and ai_scenarios exactly when scenarios_timestamp is, in every state
\* the three AI actions lead to.
C26_HistoryPairsTogether ==
    /\ Has(session_state, "ai_insights")
         <=> Has(session_state, "insights_timestamp")
    /\ Has(session_state, "ai_scenarios")
         <=> Has(session_state, "scenarios_timestamp")

C26_Witness ==
    /\ Has(session_state, "ai_scenarios")
    /\ Has(session_state, "scenarios_timestamp")
    /\ ~Has(session_state, "ai_insights")
    /\ ~Has(session_state, "insights_timestamp")
    /\ edits > 0

\* C27: once the store is initialized, every key calculate_costs reads is in
\* the store and the initialized flag stays set, after any edits, template
\* loads and resets; every call of calculate_costs finds all its keys.
C27_ParametersStayPresent ==
    /\ Has(session_state, "initialized") =>
           EngineKeys \subseteq DOMAIN session_state
    /\ HasResults =>
           /\ Has(session_state, "initialized")
           /\ EngineKeys \subseteq DOMAIN params

C27_Witness ==
    /\ edits = MaxEdits
    /\ session_state.industry = "Healthcare"
    /\ Has(session_state, "initialized")
    /\ EngineKeys \subseteq DOMAIN params
    /\ session_state.gehalt_price = 48140
====
